---- MODULE Spec2Model ----
(***************************************************************************)
(* Device-memory suballocation of the renderer: RenderBuffer               *)
(* (src/src/renderer/buffer.cpp) and ImagePool / ImageMemoryAllocator      *)
(* (src/src/renderer/image.cpp).                                           *)
(*                                                                         *)
(* A RenderBuffer is a record                                              *)
(*   length_            byte length of the backing allocation              *)
(*   host_visible_      whether the memory is mapped (bind_)               *)
(*   offset_alignment_  alignment reported for the buffer                  *)
(*   subbuffers_        vector of SubBufferData {size, offset, filled}     *)
(*   recycle_           std::set<SubBuffer> of deleted indices             *)
(*   memory_            the bytes of the backing allocation, 1..length_    *)
(*   handle_            which buffer it is (a temporary: of which buffer)  *)
(*   transfer_queue_    the calls made on the vk::Queue during one         *)
(*                      operation, in program order                        *)
(* SubBuffer handles are the 0-based vector indices of the source; the     *)
(* record of handle h is subbuffers_[h+1], byte offset o is memory_[o+1].  *)
(***************************************************************************)
EXTENDS Integers, Sequences, FiniteSets, Bags, TLC

VARIABLES buffers, noise, allocator, images, queue

vars == <<buffers, noise, allocator, images, queue>>

-----------------------------------------------------------------------------
(* Bounds of the exploration *)

\* most subbuffer records a buffer is allowed to hold
MaxRecords == 3
\* largest backing length a buffer is allowed to grow to
MaxLength == 4
\* the same two bounds where resuballoc is also called directly
GrowRecords == 3
GrowLength == 4
\* the same two bounds where byte contents are explored: fewer records in
\* a longer buffer
BytesRecords == 2
BytesLength == 4
\* byte contents with more records in a shorter buffer
MoveRecords == 3
MoveLength == 3
\* an operation played call by call on the transfer queue
QueueRecords == 2
QueueLength == 3
\* most pools one memory class is allowed to hold
MaxPools == 2
\* most images held at a time
MaxImages == 3
\* most slots all pools together are allowed to hold
MaxSlots == 2
\* the same three bounds where one pool is filled with four images
FullPools == 2
FullImages == 4
FullSlots == 5
\* fresh device memory longer than this is enumerated with uniform fills only
MaxFresh == 3

\* size_t arithmetic is modular.  The model keeps the wrap-around of the
\* source at a narrower width: every quantity of the model stays below
\* SizeMod, so a difference that wraps and is added back yields the same
\* value as at 64 bits.
SizeMod == 65536

Buffers == {"object", "staging"}
Byte == {0, 1}

\* exception messages of the source
Ok == "ok"
InvalidHandle == "Invalid subbuffer index."
NotHostVisible == "Buffer is not host visible."
CopyTooLarge == "SubBuffer copy length too large."
RangeError == "Remove length longer than filled."
Underflow == "Pop length longer than filled."
\* memcpy past the end of the mapping (undefined behaviour, made visible)
OutOfBounds == "memcpy outside the mapped range"

-----------------------------------------------------------------------------
(* Helpers *)

ToSize(x) == x % SizeMod

\* rounding that goes down to the multiple below
round_down(val, multiple) == IF multiple = 0 THEN val ELSE val - (val % multiple)
\* rounding left out
not_rounded(val, multiple) == val
round_up(val, multiple) ==
    IF multiple = 0 THEN val
    ELSE LET rem == val % multiple
         IN IF rem = 0 THEN val ELSE val + (multiple - rem)

\* *recycle_.begin(): the smallest element of a std::set<int>
\* the last element of a std::set<int> instead of *begin()
rbegin(S) == CHOOSE x \in S : \A y \in S : x >= y
Begin(S) == CHOOSE x \in S : \A y \in S : x <= y

\* contents a newly allocated (uninitialised) range lo..hi can have, when
\* the device leaves the byte values of the set `values` in new memory
FreshChoices(lo, hi, values) ==
    IF hi - lo + 1 <= MaxFresh THEN [lo..hi -> values]
    ELSE {[i \in lo..hi |-> v] : v \in values}

Fresh(f, i) == IF i \in DOMAIN f THEN f[i] ELSE 0

\* vkCmdCopyBuffer with one region (src_offset, dst_offset, length)
\* a device copy that ignores srcOffset
CopyRegion_from_start(srcmem, dstmem, src_offset, dst_offset, length) ==
    [i \in 1..Len(dstmem) |->
        IF dst_offset < i /\ i <= dst_offset + length
        THEN srcmem[i - dst_offset] ELSE dstmem[i]]
CopyRegion(srcmem, dstmem, src_offset, dst_offset, length) ==
    [i \in 1..Len(dstmem) |->
        IF dst_offset < i /\ i <= dst_offset + length
        THEN srcmem[src_offset + (i - dst_offset)]
        ELSE dstmem[i]]

\* RenderBuffer temp(length, ...): a buffer with no subbuffers.  Its bytes
\* are written by the copy that follows before any of them is read.  It is
\* built with the command buffer and the transfer queue of the buffer that
\* creates it; handle_ names it after that buffer.
\* a temporary that is the buffer of its creator
temp_aliasing(rb, length) ==
    [rb EXCEPT !.length_ = length,
               !.subbuffers_ = <<>>,
               !.recycle_ = {},
               !.memory_ = [i \in 1..length |-> 0]]
temp(rb, length) ==
    [rb EXCEPT !.handle_ = <<"temp">> \o @,
               !.length_ = length,
               !.subbuffers_ = <<>>,
               !.recycle_ = {},
               !.memory_ = [i \in 1..length |-> 0]]

RECURSIVE resize(_, _, _)
RECURSIVE copy_to_offset(_, _, _, _, _, _)

\* the calls made on the transfer queue: a submit of one copy command from
\* the buffer src to the buffer dst, and waitIdle
Submit(src, dst) == [call |-> "submit", src |-> src, dst |-> dst]
WaitIdle == [call |-> "waitIdle", src |-> <<>>, dst |-> <<>>]

\* every RenderBuffer holds the same vk::Queue: of the calls two buffers have
\* seen on it, the longer sequence is what the queue has been asked so far
Latest(a, b) == IF Len(a) >= Len(b) THEN a ELSE b

\* a copy that returns once the command is submitted
submit_copy_no_wait(src, target, length, src_offset, dst_offset) ==
    [target EXCEPT
        !.memory_ = CopyRegion(src.memory_, target.memory_,
                               src_offset, dst_offset, length),
        !.transfer_queue_ =
            Latest(src.transfer_queue_, target.transfer_queue_)
              \o <<Submit(src.handle_, target.handle_)>>]
\* the second half of copy_to_offset: one copyBuffer command is recorded,
\* submitted to the transfer queue, and the queue is waited for
submit_copy(src, target, length, src_offset, dst_offset) ==
    [target EXCEPT
        !.memory_ = CopyRegion(src.memory_, target.memory_,
                               src_offset, dst_offset, length),
        !.transfer_queue_ =
            Latest(src.transfer_queue_, target.transfer_queue_)
              \o <<Submit(src.handle_, target.handle_), WaitIdle>>]

\* src.copy_to_offset(target, length, src_offset, dst_offset)
copy_to_offset(src, target, length, src_offset, dst_offset, fresh) ==
    IF ToSize(length + src_offset) > src.length_
    THEN [err |-> CopyTooLarge, target |-> target]
    ELSE [err |-> Ok,
          target |-> submit_copy(
              src,
              IF ToSize(length + dst_offset) > target.length_
              THEN resize(target, ToSize(length + dst_offset), fresh)
              ELSE target,
              length, src_offset, dst_offset)]

\* rb.resize(size): the whole new allocation is uninitialised (fresh), then
\* the old bytes kept in a temporary buffer are copied back
\* a resize that leaves the new allocation as the device handed it out
resize_without_copy_back(rb, size, fresh) ==
    LET newlen == round_up(size, rb.offset_alignment_)
    IN [rb EXCEPT !.length_ = newlen,
                  !.memory_ = [i \in 1..newlen |-> Fresh(fresh, i)]]
resize(rb, size, fresh) ==
    LET saved == copy_to_offset(rb, temp(rb, rb.length_),
                                rb.length_, 0, 0, fresh).target
        newlen == round_up(size, rb.offset_alignment_)
        again == [rb EXCEPT !.length_ = newlen,
                            !.memory_ = [i \in 1..newlen |-> Fresh(fresh, i)]]
    IN copy_to_offset(saved, again, saved.length_, 0, 0, fresh).target

\* check_subbuffer without the lookup in recycle_
check_range_only(rb, buffer) == ~ (ToSize(buffer) >= Len(rb.subbuffers_))
check_subbuffer(rb, buffer) ==
    ~ (ToSize(buffer) >= Len(rb.subbuffers_) \/ buffer \in rb.recycle_)

\* the end of a record taken as its size alone
end_no_offset(sub) == sub.size
\* last.offset + last.size: the end of a record
end_of(sub) == ToSize(sub.offset + sub.size)

\* a follower whose offset is left where it was
offset_not_shifted(sub, shift) == sub
\* subbuffers_[i].offset += shift
shift_offset(sub, shift) == [sub EXCEPT !.offset = ToSize(@ + shift)]

RECURSIVE SumSizes(_, _)
\* sum of subbuffers_[i].size for the vector indices i >= from (0-based)
SumSizes(subs, from) ==
    IF from >= Len(subs) THEN 0
    ELSE ToSize(subs[from + 1].size + SumSizes(subs, from + 1))

\* rb.resuballoc(buffer, size)
resuballoc(rb, buffer, size, fresh) ==
    IF ~ check_subbuffer(rb, buffer)
    THEN [err |-> InvalidHandle, rb |-> rb]
    ELSE
    LET buffer_data == rb.subbuffers_[buffer + 1]
        sz == round_up(size, rb.offset_alignment_)
        shift == ToSize(sz - buffer_data.size)
        lst == rb.subbuffers_[Len(rb.subbuffers_)]
        new_size == ToSize(end_of(lst) + shift)
        rb1 == IF new_size > rb.length_ THEN resize(rb, new_size, fresh)
               ELSE rb
        subs == [i \in 1..Len(rb.subbuffers_) |->
                    IF i = buffer + 1
                    THEN [rb.subbuffers_[i] EXCEPT !.size = sz]
                    ELSE IF i > buffer + 1
                    THEN shift_offset(rb.subbuffers_[i], shift)
                    ELSE rb.subbuffers_[i]]
        rb2 == [rb1 EXCEPT !.subbuffers_ = subs]
        shift_length == SumSizes(subs, buffer + 1)
    IN IF shift_length = 0 THEN [err |-> Ok, rb |-> rb2]
       ELSE LET next_offset == subs[buffer + 2].offset
                out == copy_to_offset(rb2, temp(rb2, shift_length),
                                      shift_length,
                                      ToSize(next_offset - shift), 0, fresh)
            IN IF out.err # Ok THEN [err |-> out.err, rb |-> rb2]
               ELSE LET back == copy_to_offset(out.target, rb2, shift_length,
                                               0, next_offset, fresh)
                    IN [err |-> back.err, rb |-> back.target]

\* a suballoc that sets the recycled record to the requested size
suballoc_resized(rb, size, fresh) ==
    IF rb.recycle_ # {}
    THEN LET id == Begin(rb.recycle_)
         IN [err |-> Ok, ret |-> id,
             rb |-> [rb EXCEPT !.recycle_ = @ \ {id},
                               !.subbuffers_[id + 1].size =
                                   round_up(size, rb.offset_alignment_)]]
    ELSE
    LET offset == IF rb.subbuffers_ = <<>> THEN 0
                  ELSE end_of(rb.subbuffers_[Len(rb.subbuffers_)])
        sz == round_up(size, rb.offset_alignment_)
        pushed == [rb EXCEPT !.subbuffers_ =
                       Append(@, [size |-> sz, offset |-> offset,
                                  filled |-> 0])]
    IN [err |-> Ok, ret |-> Len(pushed.subbuffers_) - 1,
        rb |-> IF ToSize(offset + sz) > rb.length_
               THEN resize(pushed, ToSize(offset + sz), fresh) ELSE pushed]
\* rb.suballoc(size)
\* a suballoc that appends the record without growing the buffer
suballoc_without_resize(rb, size, fresh) ==
    IF rb.recycle_ # {}
    THEN LET id == Begin(rb.recycle_)
         IN [err |-> Ok, ret |-> id,
             rb |-> [rb EXCEPT !.recycle_ = @ \ {id}]]
    ELSE
    LET sz == round_up(size, rb.offset_alignment_)
        offset == IF rb.subbuffers_ = <<>> THEN 0
                  ELSE end_of(rb.subbuffers_[Len(rb.subbuffers_)])
        pushed == [rb EXCEPT !.subbuffers_ =
                       Append(@, [size |-> sz, offset |-> offset,
                                  filled |-> 0])]
    IN [err |-> Ok, ret |-> Len(pushed.subbuffers_) - 1, rb |-> pushed]
suballoc(rb, size, fresh) ==
    IF rb.recycle_ # {}
    THEN LET id == Begin(rb.recycle_)
         IN [err |-> Ok, ret |-> id,
             rb |-> [rb EXCEPT !.recycle_ = @ \ {id}]]
    ELSE
    LET sz == round_up(size, rb.offset_alignment_)
        offset == IF rb.subbuffers_ = <<>> THEN 0
                  ELSE end_of(rb.subbuffers_[Len(rb.subbuffers_)])
        pushed == [rb EXCEPT !.subbuffers_ =
                       Append(@, [size |-> sz, offset |-> offset,
                                  filled |-> 0])]
        grown == IF ToSize(offset + sz) > rb.length_
                 THEN resize(pushed, ToSize(offset + sz), fresh)
                 ELSE pushed
    IN [err |-> Ok, ret |-> Len(grown.subbuffers_) - 1, rb |-> grown]

\* a copy that writes the bytes back to front
memcpy_reversed(mem, at, data) ==
    [i \in 1..Len(mem) |->
        IF at < i /\ i <= at + Len(data) THEN data[Len(data) + 1 - (i - at)] ELSE mem[i]]
\* std::memcpy(bind_ + at, data, length)
memcpy(mem, at, data) ==
    [i \in 1..Len(mem) |->
        IF at < i /\ i <= at + Len(data) THEN data[i - at] ELSE mem[i]]

\* a copy that grows the subbuffer before it looks at host_visible_
copy_grow_first(rb, buffer, data, fresh) ==
    IF ~ check_subbuffer(rb, buffer) THEN [err |-> InvalidHandle, rb |-> rb]
    ELSE
    LET length == Len(data)
        buffer_data == rb.subbuffers_[buffer + 1]
        re == IF ToSize(length + buffer_data.filled) > buffer_data.size
              THEN resuballoc(rb, buffer,
                              ToSize(length + buffer_data.filled), fresh)
              ELSE [err |-> Ok, rb |-> rb]
        now == re.rb.subbuffers_[buffer + 1]
    IN IF re.err # Ok THEN re
       ELSE IF ~ rb.host_visible_ THEN [err |-> NotHostVisible, rb |-> re.rb]
       ELSE [err |-> Ok,
             rb |-> [re.rb EXCEPT
                 !.memory_ = memcpy(@, now.offset + now.filled, data),
                 !.subbuffers_[buffer + 1].filled = ToSize(@ + length)]]
\* rb.copy(buffer, data, length) with length = Len(data)
copy(rb, buffer, data, fresh) ==
    IF ~ check_subbuffer(rb, buffer) THEN [err |-> InvalidHandle, rb |-> rb]
    ELSE IF ~ rb.host_visible_ THEN [err |-> NotHostVisible, rb |-> rb]
    ELSE
    LET length == Len(data)
        buffer_data == rb.subbuffers_[buffer + 1]
        re == IF ToSize(length + buffer_data.filled) > buffer_data.size
              THEN resuballoc(rb, buffer,
                              ToSize(length + buffer_data.filled), fresh)
              ELSE [err |-> Ok, rb |-> rb]
        now == re.rb.subbuffers_[buffer + 1]
    IN IF re.err # Ok THEN re
       ELSE IF now.offset + now.filled + length > re.rb.length_
       THEN [err |-> OutOfBounds, rb |-> re.rb]
       ELSE [err |-> Ok,
             rb |-> [re.rb EXCEPT
                 !.memory_ = memcpy(@, now.offset + now.filled, data),
                 !.subbuffers_[buffer + 1].filled = ToSize(@ + length)]]

\* src_rb.copy_buffer(target, length, src, dst)
\* a copy_buffer that writes at the start of the destination subbuffer
copy_buffer_at_start(src_rb, target, length, src, dst, fresh) ==
    IF ~ check_subbuffer(src_rb, src) \/ ~ check_subbuffer(target, dst)
    THEN [err |-> InvalidHandle, rb |-> target]
    ELSE
    LET dst_buffer == target.subbuffers_[dst + 1]
        re == IF ToSize(length + dst_buffer.filled) > dst_buffer.size
              THEN resuballoc(target, dst,
                              ToSize(length + dst_buffer.filled), fresh)
              ELSE [err |-> Ok, rb |-> target]
        now == re.rb.subbuffers_[dst + 1]
    IN IF re.err # Ok THEN re
       ELSE LET out == copy_to_offset(src_rb, re.rb, length,
                                      src_rb.subbuffers_[src + 1].offset,
                                      now.offset, fresh)
            IN IF out.err # Ok THEN [err |-> out.err, rb |-> re.rb]
               ELSE [err |-> Ok,
                     rb |-> [out.target EXCEPT
                         !.subbuffers_[dst + 1].filled = ToSize(@ + length)]]
copy_buffer(src_rb, target, length, src, dst, fresh) ==
    IF ~ check_subbuffer(src_rb, src) \/ ~ check_subbuffer(target, dst)
    THEN [err |-> InvalidHandle, rb |-> target]
    ELSE
    LET dst_buffer == target.subbuffers_[dst + 1]
        re == IF ToSize(length + dst_buffer.filled) > dst_buffer.size
              THEN resuballoc(target, dst,
                              ToSize(length + dst_buffer.filled), fresh)
              ELSE [err |-> Ok, rb |-> target]
        now == re.rb.subbuffers_[dst + 1]
    IN IF re.err # Ok THEN re
       ELSE LET out == copy_to_offset(src_rb, re.rb, length,
                                      src_rb.subbuffers_[src + 1].offset,
                                      ToSize(now.offset + now.filled), fresh)
            IN IF out.err # Ok THEN [err |-> out.err, rb |-> re.rb]
               ELSE [err |-> Ok,
                     rb |-> [out.target EXCEPT
                         !.subbuffers_[dst + 1].filled = ToSize(@ + length)]]

\* a remove that cuts filled without moving the bytes behind the range
remove_truncating(rb, buffer, offset, length) ==
    IF ~ check_subbuffer(rb, buffer) THEN [err |-> InvalidHandle, rb |-> rb]
    ELSE IF ToSize(offset + length) > rb.subbuffers_[buffer + 1].filled
    THEN [err |-> RangeError, rb |-> rb]
    ELSE [err |-> Ok,
          rb |-> [rb EXCEPT !.subbuffers_[buffer + 1].filled =
                                ToSize(@ - length)]]
\* rb.remove(buffer, offset, length)
remove(rb, buffer, offset, length) ==
    IF ~ check_subbuffer(rb, buffer) THEN [err |-> InvalidHandle, rb |-> rb]
    ELSE
    LET buffer_data == rb.subbuffers_[buffer + 1]
        shift_start == ToSize(offset + length)
        shift_length == ToSize(buffer_data.filled - shift_start)
        done(r) == [r EXCEPT !.subbuffers_[buffer + 1].filled =
                                 ToSize(@ - length)]
    IN IF ToSize(offset + length) > buffer_data.filled
       THEN [err |-> RangeError, rb |-> rb]
       ELSE IF shift_length = 0 THEN [err |-> Ok, rb |-> done(rb)]
       ELSE LET out == copy_to_offset(rb, temp(rb, shift_length),
                           shift_length,
                           ToSize(buffer_data.offset + shift_start), 0, <<>>)
            IN IF out.err # Ok THEN [err |-> out.err, rb |-> rb]
               ELSE LET back == copy_to_offset(out.target, rb, shift_length,
                                    0, ToSize(buffer_data.offset + offset),
                                    <<>>)
                    IN IF back.err # Ok
                       THEN [err |-> back.err, rb |-> back.target]
                       ELSE [err |-> Ok, rb |-> done(back.target)]

\* a pop that also refuses to pop everything that is filled
pop_not_all(rb, buffer, length) ==
    IF ~ check_subbuffer(rb, buffer) THEN [err |-> InvalidHandle, rb |-> rb]
    ELSE IF length >= rb.subbuffers_[buffer + 1].filled
    THEN [err |-> Underflow, rb |-> rb]
    ELSE [err |-> Ok,
          rb |-> [rb EXCEPT !.subbuffers_[buffer + 1].filled =
                                ToSize(@ - length)]]
\* a pop without the comparison against filled
pop_unchecked(rb, buffer, length) ==
    IF ~ check_subbuffer(rb, buffer) THEN [err |-> InvalidHandle, rb |-> rb]
    ELSE [err |-> Ok,
          rb |-> [rb EXCEPT !.subbuffers_[buffer + 1].filled =
                                ToSize(@ - length)]]
\* rb.pop(buffer, length)
pop(rb, buffer, length) ==
    IF ~ check_subbuffer(rb, buffer) THEN [err |-> InvalidHandle, rb |-> rb]
    ELSE IF length > rb.subbuffers_[buffer + 1].filled
    THEN [err |-> Underflow, rb |-> rb]
    ELSE [err |-> Ok,
          rb |-> [rb EXCEPT !.subbuffers_[buffer + 1].filled =
                                ToSize(@ - length)]]

\* rb.clear(buffer)
clear(rb, buffer) ==
    IF ~ check_subbuffer(rb, buffer) THEN [err |-> InvalidHandle, rb |-> rb]
    ELSE [err |-> Ok, rb |-> [rb EXCEPT !.subbuffers_[buffer + 1].filled = 0]]

\* a delete that erases the record from the vector
delete_compacting(rb, buffer) ==
    IF ~ check_subbuffer(rb, buffer) THEN [err |-> InvalidHandle, rb |-> rb]
    ELSE [err |-> Ok,
          rb |-> [rb EXCEPT !.subbuffers_ =
                     [i \in 1..(Len(@) - 1) |->
                         IF i <= buffer THEN @[i] ELSE @[i + 1]]]]
\* a delete that leaves filled as it is
delete_keeps_filled(rb, buffer) ==
    IF ~ check_subbuffer(rb, buffer) THEN [err |-> InvalidHandle, rb |-> rb]
    ELSE [err |-> Ok, rb |-> [rb EXCEPT !.recycle_ = @ \cup {buffer}]]
\* rb.delete_subbuffer(buffer)
delete_subbuffer(rb, buffer) ==
    IF ~ check_subbuffer(rb, buffer) THEN [err |-> InvalidHandle, rb |-> rb]
    ELSE [err |-> Ok,
          rb |-> [rb EXCEPT !.subbuffers_[buffer + 1].filled = 0,
                            !.recycle_ = @ \cup {buffer}]]

-----------------------------------------------------------------------------
(* Public operations of a RenderBuffer.  An operation that throws leaves   *)
(* the buffer as the handler left it at the throw.  `noise` is the set of  *)
(* byte values the device leaves in newly allocated memory.                *)

\* the buffer as a public operation leaves it: transfer_queue_ lists the
\* calls made on the queue during one operation
Returned(rb) == [rb EXCEPT !.transfer_queue_ = <<>>]

Suballoc(b, size) ==
    LET rb == buffers[b]
        probe == suballoc(rb, size, <<>>).rb
    IN \E fresh \in FreshChoices(rb.length_ + 1, probe.length_, noise) :
          LET out == suballoc(rb, size, fresh)
          IN /\ buffers' = [buffers EXCEPT ![b] = Returned(out.rb)]
             /\ UNCHANGED <<noise, allocator, images, queue>>

Copy(b, buffer, data) ==
    LET rb == buffers[b]
        probe == copy(rb, buffer, data, <<>>).rb
    IN \E fresh \in FreshChoices(rb.length_ + 1, probe.length_, noise) :
          LET out == copy(rb, buffer, data, fresh)
          IN /\ buffers' = [buffers EXCEPT ![b] = Returned(out.rb)]
             /\ UNCHANGED <<noise, allocator, images, queue>>

\* buffers[s].copy_buffer(buffers[t], length, src, dst), two distinct buffers
Copy_buffer(s, t, length, src, dst) ==
    LET rb == buffers[t]
        probe == copy_buffer(buffers[s], rb, length, src, dst, <<>>).rb
    IN /\ s # t
       /\ \E fresh \in FreshChoices(rb.length_ + 1, probe.length_, noise) :
          LET out == copy_buffer(buffers[s], rb, length, src, dst, fresh)
          IN /\ buffers' = [buffers EXCEPT ![t] = Returned(out.rb)]
             /\ UNCHANGED <<noise, allocator, images, queue>>

\* resuballoc is private; this is a direct call of it (growInPlace)
Resuballoc(b, buffer, size) ==
    LET rb == buffers[b]
        probe == resuballoc(rb, buffer, size, <<>>).rb
    IN \E fresh \in FreshChoices(rb.length_ + 1, probe.length_, noise) :
          LET out == resuballoc(rb, buffer, size, fresh)
          IN /\ buffers' = [buffers EXCEPT ![b] = Returned(out.rb)]
             /\ UNCHANGED <<noise, allocator, images, queue>>

Remove(b, buffer, offset, length) ==
    LET out == remove(buffers[b], buffer, offset, length)
    IN /\ buffers' = [buffers EXCEPT ![b] = Returned(out.rb)]
       /\ UNCHANGED <<noise, allocator, images, queue>>

Pop(b, buffer, length) ==
    LET out == pop(buffers[b], buffer, length)
    IN /\ buffers' = [buffers EXCEPT ![b] = Returned(out.rb)]
       /\ UNCHANGED <<noise, allocator, images, queue>>

Clear(b, buffer) ==
    LET out == clear(buffers[b], buffer)
    IN /\ buffers' = [buffers EXCEPT ![b] = Returned(out.rb)]
       /\ UNCHANGED <<noise, allocator, images, queue>>

Delete_subbuffer(b, buffer) ==
    LET out == delete_subbuffer(buffers[b], buffer)
    IN /\ buffers' = [buffers EXCEPT ![b] = Returned(out.rb)]
       /\ UNCHANGED <<noise, allocator, images, queue>>

get_offset(rb, buffer) ==
    IF ~ check_subbuffer(rb, buffer) THEN [err |-> InvalidHandle, ret |-> 0]
    ELSE [err |-> Ok, ret |-> rb.subbuffers_[buffer + 1].offset]

get_subfill(rb, buffer) ==
    IF ~ check_subbuffer(rb, buffer) THEN [err |-> InvalidHandle, ret |-> 0]
    ELSE [err |-> Ok, ret |-> rb.subbuffers_[buffer + 1].filled]

get_subsize(rb, buffer) ==
    IF ~ check_subbuffer(rb, buffer) THEN [err |-> InvalidHandle, ret |-> 0]
    ELSE [err |-> Ok, ret |-> rb.subbuffers_[buffer + 1].size]

-----------------------------------------------------------------------------
(* Inputs and initial states *)

Alignments == {1, 2}
Sizes == {0, 1, 2}
Lengths == {0, 1, 2}

\* the handles a caller passes: -1, every index of the vector (live or
\* recycled) and the first index past its end
Handles(b) == -1..Len(buffers[b].subbuffers_)

\* the data blocks of 0, 1 or 2 bytes over the byte values `values`
Datas(values) == UNION {[1..n -> values] : n \in Lengths}

\* RenderBuffer(length, ..., properties, ...): no subbuffers
RenderBuffer(handle, length, alignment, host_visible, mem) ==
    [handle_ |-> <<handle>>, transfer_queue_ |-> <<>>,
     length_ |-> length, host_visible_ |-> host_visible,
     offset_alignment_ |-> alignment, subbuffers_ |-> <<>>,
     recycle_ |-> {}, memory_ |-> mem]

RECURSIVE Staged(_, _)
\* a host-visible staging buffer after suballoc(Len(d)); copy(handle, d) for
\* each data block d of `blocks` in turn (every byte of it has been written)
Staged(rb, blocks) ==
    IF blocks = <<>> THEN rb
    ELSE LET a == suballoc(rb, Len(Head(blocks)), <<>>)
         IN Staged(copy(a.rb, a.ret, Head(blocks), <<>>).rb, Tail(blocks))

-----------------------------------------------------------------------------
(* ImagePool and ImageMemoryAllocator (src/src/renderer/image.cpp).        *)
(* allocator is memory_: for every MemoryMeta the vector of its pools.  A  *)
(* pool is a record capacity_, alignment_, subbuffers_ (vector of {size,   *)
(* offset, filled}) and recycle_ (std::set<int>).  images is the bag of    *)
(* images the caller holds: the ImageMemoryHandle it was given, the size   *)
(* the image requires and the pool offset the image was bound at.          *)

capacity_ == 268435456

MemoryMetas == {[memory_type |-> 0, alignment |-> a] : a \in {1, 65536}}

\* required sizes: a quarter of a pool, just under a quarter, and one byte
\* more than a pool
ImageSizes == {capacity_ \div 4, capacity_ \div 4 - 1, capacity_ + 1}

\* what reading the int of an erased std::set node can give besides the
\* value it held
Garbage == {-1, 1}
StaleReads == {[intact |-> TRUE, value |-> 0]} \cup {[intact |-> FALSE, value |-> v] : v \in Garbage}

Unbound == -1

ImagePool(memory_meta) ==
    [capacity_ |-> capacity_, alignment_ |-> memory_meta.alignment,
     subbuffers_ |-> <<>>, recycle_ |-> {}]

\* the first index of recycle_, in set order, whose slot is large enough
Fits(pool, size) == {index \in pool.recycle_ : pool.subbuffers_[index + 1].size >= size}

\* returns the index, the offset the image was bound at and the pool.
\* `return index` reads the reference into recycle_ after the node was
\* erased: stale is what that read gives.
ImagePool_suballoc(pool, size, stale) ==
    IF Fits(pool, size) # {}
    THEN LET index == Begin(Fits(pool, size))
         IN [ret |-> IF stale.intact THEN index ELSE stale.value,
             bound |-> pool.subbuffers_[index + 1].offset,
             pool |-> [pool EXCEPT !.recycle_ = @ \ {index}]]
    ELSE LET subbuffer ==
                 [size |-> round_up(size, pool.alignment_),
                  filled |-> 0,
                  offset |-> IF pool.subbuffers_ = <<>> THEN 0
                             ELSE LET last == pool.subbuffers_[Len(pool.subbuffers_)]
                                  IN last.offset + last.size]
         IN IF subbuffer.offset + subbuffer.size > pool.capacity_
            THEN [ret |-> -1, bound |-> Unbound, pool |-> pool]
            ELSE [ret |-> Len(pool.subbuffers_),
                  bound |-> subbuffer.offset,
                  pool |-> [pool EXCEPT !.subbuffers_ = Append(@, subbuffer)]]

ImagePool_remove(pool, index) == [pool EXCEPT !.recycle_ = @ \cup {index}]

\* the loop over the pools of one class, from pool_index on: every pool is
\* asked in turn until one returns an index >= 0
RECURSIVE find_pool(_, _, _, _, _)
find_pool(pools, pool_index, size, stale, bound) ==
    IF pool_index >= Len(pools)
    THEN [index |-> -1, pool_index |-> pool_index, bound |-> bound, pools |-> pools]
    ELSE LET out == ImagePool_suballoc(pools[pool_index + 1], size, stale)
             rebound == IF out.bound = Unbound THEN bound ELSE out.bound
             asked == [pools EXCEPT ![pool_index + 1] = out.pool]
         IN IF out.ret >= 0
            THEN [index |-> out.ret, pool_index |-> pool_index,
                  bound |-> rebound, pools |-> asked]
            ELSE find_pool(asked, pool_index + 1, size, stale, rebound)

\* returns the handle, the offset the image was bound at and memory_
allocate_memory(memory, memory_meta, size, stale) ==
    LET found == find_pool(memory[memory_meta], 0, size, stale, Unbound)
    IN IF found.index < 0
       THEN LET out == ImagePool_suballoc(ImagePool(memory_meta), size, stale)
                pools == Append(found.pools, out.pool)
            IN [handle |-> [memory_meta |-> memory_meta,
                            pool |-> Len(pools) - 1, index |-> out.ret],
                bound |-> IF out.bound = Unbound THEN found.bound ELSE out.bound,
                memory |-> [memory EXCEPT ![memory_meta] = pools]]
       ELSE [handle |-> [memory_meta |-> memory_meta,
                         pool |-> found.pool_index, index |-> found.index],
             bound |-> found.bound,
             memory |-> [memory EXCEPT ![memory_meta] = found.pools]]

remove_image(memory, handle) ==
    [memory EXCEPT ![handle.memory_meta][handle.pool + 1] =
                       ImagePool_remove(@, handle.index)]

reset(memory) == [m \in MemoryMetas |-> <<>>]

RECURSIVE Slots(_, _)
Slots(pools, n) ==
    IF n = 0 THEN 0 ELSE Len(pools[n].subbuffers_) + Slots(pools, n - 1)

SlotCount(memory) ==
    LET RECURSIVE Sum(_)
        Sum(metas) == IF metas = {} THEN 0
                      ELSE LET m == CHOOSE x \in metas : TRUE
                           IN Slots(memory[m], Len(memory[m])) + Sum(metas \ {m})
    IN Sum(MemoryMetas)

Allocate_memory(memory_meta, size, stale) ==
    LET out == allocate_memory(allocator, memory_meta, size, stale)
    IN /\ allocator' = out.memory
       /\ images' = images (+) SetToBag({[handle |-> out.handle, size |-> size,
                                            bound |-> out.bound]})
       /\ UNCHANGED <<buffers, noise, queue>>

\* the caller removes an image it holds whose handle names a slot
Remove_image(image) ==
    /\ BagIn(image, images)
    /\ LET handle == image.handle
       IN /\ handle.index \in 0..(Len(allocator[handle.memory_meta][handle.pool + 1].subbuffers_) - 1)
          /\ allocator' = remove_image(allocator, handle)
    /\ images' = images (-) SetToBag({image})
    /\ UNCHANGED <<buffers, noise, queue>>

\* reset() is called when every image has been destroyed
Reset ==
    /\ images = EmptyBag
    /\ allocator' = reset(allocator)
    /\ UNCHANGED <<buffers, noise, images, queue>>

InitImages ==
    /\ allocator = [m \in MemoryMetas |-> <<>>]
    /\ images = EmptyBag
    /\ queue = [running |-> FALSE, calls |-> <<>>, pending |-> <<>>]

\* the object buffer right after construction, in any configuration; the
\* staging buffer (the source of copy_buffer) holding `blocks`
InitBuffers(values, visible, blocks) ==
    /\ noise = values
    /\ \E a \in Alignments, hv \in visible, m \in FreshChoices(1, 1, values) :
          buffers = [b \in Buffers |->
                       IF b = "object" THEN RenderBuffer("object", 1, a, hv, m)
                       ELSE Returned(Staged(RenderBuffer("staging", 1, 1, TRUE,
                                                         <<0>>), blocks))]
    /\ InitImages

\* bounds of the exploration, on the state a step leads to
Bounded(records, length) ==
    /\ Len(buffers["object"].subbuffers_) <= records
    /\ buffers["object"].length_ <= length

\* the public operations on buffer b (copy_buffer from the staging buffer),
\* kept within `records` records and `length` bytes
Public(b, sizes, values, records, length) ==
    \/ \E size \in sizes :
          Suballoc(b, size) /\ Bounded(records, length)'
    \/ \E h \in Handles(b), data \in Datas(values) :
          Copy(b, h, data) /\ Bounded(records, length)'
    \/ \E l \in Lengths, src \in Handles("staging"), dst \in Handles(b) :
          Copy_buffer("staging", b, l, src, dst) /\ Bounded(records, length)'
    \/ \E h \in Handles(b), o \in Lengths, l \in Lengths : Remove(b, h, o, l)
    \/ \E h \in Handles(b), l \in Lengths : Pop(b, h, l)
    \/ \E h \in Handles(b) : Clear(b, h)
    \/ \E h \in Handles(b) : Delete_subbuffer(b, h)

(* Spec: every public operation on the object buffer, with copy_buffer     *)
(* from the staging buffer.  Byte contents are not distinguished (one byte *)
(* value): no branch of the source reads a byte of the buffer, so the      *)
(* records, the recycle set and the capacity evolve as with any contents.  *)
Init == InitBuffers({0}, BOOLEAN, << <<0>>, <<0>> >>)

Next == Public("object", Sizes, {0}, MaxRecords, MaxLength)

Spec == Init /\ [][Next]_vars

(* SpecGrow: Spec with direct calls of the private resuballoc added (sizes *)
(* of at least one byte, below, equal to and above the current size).      *)
NextGrow ==
    \/ Public("object", Sizes \ {0}, {0}, GrowRecords, GrowLength)
    \/ \E h \in Handles("object"), size \in {1, 2, 3} :
          Resuballoc("object", h, size) /\ Bounded(GrowRecords, GrowLength)'

SpecGrow == Init /\ [][NextGrow]_vars

(* SpecBytes: the public operations on a host-visible object buffer with   *)
(* byte contents: new memory holds any bytes, the caller writes any bytes. *)
InitBytes == InitBuffers(Byte, {TRUE}, << <<1>>, <<0>> >>)

NextBytes == Public("object", Sizes \ {0}, Byte, BytesRecords, BytesLength)

SpecBytes == InitBytes /\ [][NextBytes]_vars

(* SpecMove: SpecBytes within a smaller buffer, for the operations that    *)
(* move the bytes of the records behind a growing one.                     *)
NextMove == Public("object", Sizes \ {0}, Byte, MoveRecords, MoveLength)

SpecMove == InitBytes /\ [][NextMove]_vars

(* SpecShift: the shift scenario.  A host-visible object buffer of 16, 48  *)
(* or 80 bytes with an alignment dividing 16 gets three subbuffers of 16   *)
(* bytes, each is filled with a 16-byte block, and the first one is grown  *)
(* to 32 bytes.                                                            *)
ShiftAlignments == {1, 2, 4, 8, 16}
ShiftLengths == {16, 48, 80}
Blocks == {[i \in 1..16 |-> 0], [i \in 1..16 |-> 1], [i \in 1..16 |-> i % 2]}

InitShift ==
    /\ noise = Byte
    /\ \E a \in ShiftAlignments, l \in ShiftLengths :
        \E m \in FreshChoices(1, l, Byte) :
          buffers = [b \in Buffers |->
                       IF b = "object" THEN RenderBuffer("object", l, a, TRUE, m)
                       ELSE RenderBuffer("staging", 1, 1, TRUE, <<0>>)]
    /\ InitImages

NextShift ==
    \/ /\ Len(buffers["object"].subbuffers_) < 3
       /\ Suballoc("object", 16)
    \/ \E h \in 0..2, data \in Blocks :
          /\ h < Len(buffers["object"].subbuffers_)
          /\ buffers["object"].subbuffers_[h + 1].filled = 0
          /\ Copy("object", h, data)
    \/ /\ Len(buffers["object"].subbuffers_) = 3
       /\ buffers["object"].subbuffers_[1].size = 16
       /\ Resuballoc("object", 0, 32)

SpecShift == InitShift /\ [][NextShift]_vars

(* SpecQueue: the public operations that submit device copies, played on   *)
(* the transfer queue one call at a time.  queue.calls are the calls the   *)
(* running operation has still to make, queue.pending the copy commands    *)
(* submitted and not yet executed.  The device executes a pending command  *)
(* at any time; vkQueueWaitIdle returns when nothing is pending.  buffers  *)
(* holds the outcome of the running operation, and no other operation      *)
(* starts before it has returned.                                          *)
Start(rb) ==
    /\ ~ queue.running
    /\ buffers' = [buffers EXCEPT !["object"] = Returned(rb)]
    /\ queue' = [running |-> TRUE, calls |-> rb.transfer_queue_, pending |-> <<>>]
    /\ UNCHANGED <<noise, allocator, images>>

QueueSubmit ==
    /\ queue.running /\ queue.calls # <<>>
    /\ Head(queue.calls).call = "submit"
    /\ queue' = [queue EXCEPT !.calls = Tail(@),
                              !.pending = Append(@, Head(queue.calls))]
    /\ UNCHANGED <<buffers, noise, allocator, images>>

QueueWaitIdle ==
    /\ queue.running /\ queue.calls # <<>>
    /\ Head(queue.calls).call = "waitIdle"
    /\ queue.pending = <<>>
    /\ queue' = [queue EXCEPT !.calls = Tail(@)]
    /\ UNCHANGED <<buffers, noise, allocator, images>>

Execute ==
    /\ queue.pending # <<>>
    /\ queue' = [queue EXCEPT !.pending = Tail(@)]
    /\ UNCHANGED <<buffers, noise, allocator, images>>

Return ==
    /\ queue.running /\ queue.calls = <<>>
    /\ queue' = [queue EXCEPT !.running = FALSE]
    /\ UNCHANGED <<buffers, noise, allocator, images>>

NextQueue ==
    \/ \E size \in Sizes \ {0} :
          /\ Start(suballoc(buffers["object"], size, <<>>).rb)
          /\ Bounded(QueueRecords, QueueLength)'
    \/ \E h \in Handles("object"), data \in Datas({0}) :
          /\ Start(copy(buffers["object"], h, data, <<>>).rb)
          /\ Bounded(QueueRecords, QueueLength)'
    \/ \E l \in Lengths, src \in Handles("staging"), dst \in Handles("object") :
          /\ Start(copy_buffer(buffers["staging"], buffers["object"],
                               l, src, dst, <<>>).rb)
          /\ Bounded(QueueRecords, QueueLength)'
    \/ \E h \in Handles("object"), o \in Lengths, l \in Lengths :
          Start(remove(buffers["object"], h, o, l).rb)
    \/ \E h \in Handles("object") :
          Start(delete_subbuffer(buffers["object"], h).rb)
    \/ QueueSubmit
    \/ QueueWaitIdle
    \/ Execute
    \/ Return

SpecQueue == Init /\ [][NextQueue]_vars

(* SpecImages: the image allocator on its own *)
InitPools ==
    /\ noise = {0}
    /\ buffers = [b \in Buffers |-> RenderBuffer(b, 1, 1, TRUE, <<0>>)]
    /\ InitImages

Held(held, pools, slots) ==
    /\ BagCardinality(images) <= held
    /\ \A m \in MemoryMetas : Len(allocator[m]) <= pools
    /\ SlotCount(allocator) <= slots

NextImages ==
    \/ \E memory_meta \in MemoryMetas, size \in ImageSizes, stale \in StaleReads :
          Allocate_memory(memory_meta, size, stale) /\ Held(MaxImages, MaxPools, MaxSlots)'
    \/ \E image \in BagToSet(images) : Remove_image(image)
    \/ Reset

SpecImages == InitPools /\ [][NextImages]_vars

(* SpecFull: images of a quarter of a pool in one memory class, so that a  *)
(* pool is full with four of them.                                         *)
Quarter == [memory_type |-> 0, alignment |-> 65536]

NextFull ==
    \/ \E stale \in StaleReads :
          Allocate_memory(Quarter, capacity_ \div 4, stale) /\ Held(FullImages, FullPools, FullSlots)'
    \/ \E image \in BagToSet(images) : Remove_image(image)
    \/ Reset

SpecFull == InitPools /\ [][NextFull]_vars

-----------------------------------------------------------------------------
(* Properties of the subbuffer records of the object buffer *)

object == buffers["object"]
Records == object.subbuffers_
Count == Len(Records)
\* the handles that are live: in range and not in the recycle set
Live == {h \in 0..(Count - 1) : h \notin object.recycle_}
Sub(h) == Records[h + 1]

\* C1: after any sequence of suballoc, delete_subbuffer, copy, copy_buffer
\* and resuballoc calls the byte ranges [offset, offset+size) of the live
\* subbuffers are pairwise disjoint.
C1_NonOverlap ==
    \A i \in Live, j \in Live :
        i < j => \/ Sub(i).offset + Sub(i).size <= Sub(j).offset
                 \/ Sub(j).offset + Sub(j).size <= Sub(i).offset
                 \/ Sub(i).size = 0
                 \/ Sub(j).size = 0

\* a record grown to three bytes (more than suballoc is asked for) is
\* followed by a live record that was shifted
C1_Witness ==
    /\ Count >= 2 /\ {0, 1} \subseteq Live
    /\ Sub(0).size = 3 /\ Sub(1).size >= 1 /\ Sub(1).offset = 3

\* C2: between public operations the live records in increasing index order
\* have non-decreasing offsets.
C2_OffsetsMonotone ==
    \A i \in Live, j \in Live : i < j => Sub(i).offset <= Sub(j).offset

\* three records, the middle one recycled, the last one behind a record of
\* positive size
C2_Witness ==
    /\ Count = 3 /\ Live = {0, 2}
    /\ Sub(0).size > 0 /\ Sub(2).offset > Sub(0).offset

\* C3: the records, live or recycled, are contiguous and ordered: the first
\* starts at 0 and each next one starts where the one before it ends.
C3_Contiguous ==
    \A h \in 0..(Count - 1) :
        Sub(h).offset =
            IF h = 0 THEN 0 ELSE Sub(h - 1).offset + Sub(h - 1).size

\* three records after the first one was grown and the second one deleted
C3_Witness ==
    /\ Count = 3 /\ 1 \in object.recycle_
    /\ Sub(0).size = 2 /\ object.offset_alignment_ = 1 /\ Sub(0).filled = 2
    /\ Sub(2).offset = 3

\* the bytes of the object buffer at [offset, offset + length)
Bytes(rb, offset, length) == [i \in 1..length |-> rb.memory_[offset + i]]

\* three subbuffers of 16 bytes allocated in order
ThreeOf16 ==
    /\ Count = 3
    /\ \A h \in 0..2 : Sub(h).size = 16 /\ Sub(h).offset = 16 * h

\* C4 as stated: resuballoc(handle_0, 32) on three subbuffers of 16 bytes
\* gives size(handle_0) = 32, offset(handle_1) = 48, offset(handle_2) = 64,
\* with the bytes formerly at 16 now at 48 and those formerly at 32 now at 64.
C4_AsStated ==
    [][(ThreeOf16 /\ Resuballoc("object", 0, 32)) =>
          /\ Sub(0)'.size = 32
          /\ Sub(1)'.offset = 48
          /\ Sub(2)'.offset = 64
          /\ object'.length_ >= 80
          /\ Bytes(object', 48, 16) = Bytes(object, 16, 16)
          /\ Bytes(object', 64, 16) = Bytes(object, 32, 16)]_vars

\* C4 amended: the shift is 32 - 16 = 16, so offset(handle_1) = 32 and
\* offset(handle_2) = 48, the bytes formerly at 16 are now at 32 and those
\* formerly at 32 are now at 48, byte for byte.
C4_ShiftBy16 ==
    [][(ThreeOf16 /\ Resuballoc("object", 0, 32)) =>
          /\ Sub(0)'.size = 32
          /\ Sub(0)'.offset = 0
          /\ Sub(1)'.offset = 32
          /\ Sub(2)'.offset = 48
          /\ Bytes(object', 32, 16) = Bytes(object, 16, 16)
          /\ Bytes(object', 48, 16) = Bytes(object, 32, 16)]_vars

\* the state after the growth, with the second and third subbuffer holding
\* different blocks
C4_Witness ==
    /\ Count = 3 /\ Sub(0).size = 32 /\ Sub(1).offset = 32 /\ Sub(2).offset = 48
    /\ \A h \in 0..2 : Sub(h).filled = 16
    /\ Bytes(object, 32, 16) = [i \in 1..16 |-> 1]
    /\ Bytes(object, 48, 16) = [i \in 1..16 |-> i % 2]

\* C5 as stated: for every live handle h, whatever the recycle set holds,
\* after delete(h) the next allocate returns h and filled(h) = 0 after it.
C5_DeleteThenAllocate ==
    [][\A h \in Live : Delete_subbuffer("object", h) =>
          \A size \in Sizes :
              LET next == suballoc(object', size, <<>>)
              IN /\ next.ret = h
                 /\ next.rb.subbuffers_[h + 1].filled = 0]_vars

\* handles the claim calls invalid: at or past the number of records, or in
\* the recycle set
Invalid == {h \in 0..(Count + 1) : h >= Count \/ h \in object.recycle_}

Rejected(out) == out.err = InvalidHandle /\ out.rb = object

\* C6: every accessor and mutator given a handle that is >= the number of
\* records or in the recycle set fails with InvalidHandle and leaves the
\* records, the recycle set and the capacity as they were.
C6_InvalidHandle ==
    \A h \in Invalid :
        /\ get_offset(object, h).err = InvalidHandle
        /\ get_subfill(object, h).err = InvalidHandle
        /\ get_subsize(object, h).err = InvalidHandle
        /\ \A data \in Datas({0}) : Rejected(copy(object, h, data, <<>>))
        /\ \A l \in Lengths, src \in Handles("staging") :
              Rejected(copy_buffer(buffers["staging"], object, l, src, h, <<>>))
        /\ \A l \in Lengths, dst \in Handles("staging") :
              LET out == copy_buffer(object, buffers["staging"], l, h, dst, <<>>)
              IN out.err = InvalidHandle /\ out.rb = buffers["staging"]
        /\ \A o \in Lengths, l \in Lengths : Rejected(remove(object, h, o, l))
        /\ \A l \in Lengths : Rejected(pop(object, h, l))
        /\ Rejected(clear(object, h))
        /\ Rejected(delete_subbuffer(object, h))

\* a deleted handle that has not been reused, next to a live one
C6_Witness ==
    /\ Count = 2 /\ object.recycle_ = {0} /\ Sub(0).size > 0
    /\ Sub(1).filled > 0 /\ 0 \in Invalid /\ 1 \notin Invalid

\* C7: on a host-visible buffer append(h, data, n) succeeds and the n bytes
\* at offset(h) + filled(h) - n afterwards are data, whether or not the
\* append grows h or the whole backing allocation.
C7_AppendReadBack ==
    object.host_visible_ =>
    \A h \in Live, data \in Datas(Byte) :
        LET probe == copy(object, h, data, <<>>).rb
        IN \A fresh \in FreshChoices(object.length_ + 1, probe.length_, noise) :
              LET out == copy(object, h, data, fresh)
                  now == out.rb.subbuffers_[h + 1]
                  n == Len(data)
              IN /\ out.err = Ok
                 /\ now.filled = Sub(h).filled + n
                 /\ Bytes(out.rb, now.offset + now.filled - n, n) = data

\* an append of two different bytes that grew the first of two subbuffers
\* and the backing allocation
C7_Witness ==
    /\ object.host_visible_ /\ Count = 2 /\ Live = {0, 1}
    /\ Sub(0).size = 2 /\ Sub(0).filled = 2 /\ Sub(1).offset = 2
    /\ Bytes(object, 0, 2) = <<1, 0>>
    /\ Sub(1).filled = 1 /\ Bytes(object, 2, 1) = <<1>>

\* C8 as stated: growInPlace(h, s) with round_up(s) <= size(h) leaves the
\* size and offset of every record and every record's bytes unchanged.
C8_NoOpWhenNotLarger ==
    [][\A h \in Live, s \in 1..3 :
          (/\ round_up(s, object.offset_alignment_) <= Sub(h).size
           /\ Resuballoc("object", h, s)) =>
          /\ Count' = Count
          /\ \A k \in 0..(Count - 1) :
                /\ Sub(k)'.size = Sub(k).size
                /\ Sub(k)'.offset = Sub(k).offset
                /\ Bytes(object', Sub(k).offset, Sub(k).size)
                     = Bytes(object, Sub(k).offset, Sub(k).size)]_vars

\* the image a step has added to the images the caller holds
Added == CHOOSE image \in BagToSet(images') : CopiesIn(image, images') > CopiesIn(image, images)

\* C9 as stated: when an existing pool of the class has a recycled slot at
\* least as large as the image requires, no pool is created; when the first
\* pool has one (four quarter-pool bindings, one of them removed), the image
\* gets that pool, the index of a recycled slot that fits and its offset.
C9_RecycledSlotReused ==
    [][\A stale \in StaleReads :
          LET pools == allocator[Quarter]
              size == capacity_ \div 4
          IN (/\ \E n \in 1..Len(pools) : Fits(pools[n], size) # {}
              /\ Allocate_memory(Quarter, size, stale)) =>
             /\ Len(allocator'[Quarter]) = Len(pools)
             /\ Fits(pools[1], size) # {} =>
                   \E index \in Fits(pools[1], size) :
                      /\ Added.handle.pool = 0
                      /\ Added.handle.index = index
                      /\ Added.bound = pools[1].subbuffers_[index + 1].offset
                      /\ index \notin allocator'[Quarter][1].recycle_]_vars

\* C10 as stated: allocating memory for an image whose rounded size exceeds
\* the pool capacity leaves nothing behind: no pool is added, no slot is
\* appended, the recycle sets stay, and the caller gets no handle.
C10_OversizedLeavesNothing ==
    [][\A memory_meta \in MemoryMetas, size \in ImageSizes, stale \in StaleReads :
          (/\ round_up(size, memory_meta.alignment) > capacity_
           /\ Allocate_memory(memory_meta, size, stale)) =>
          /\ allocator' = allocator
          /\ images' = images]_vars

\* sizes a caller asks suballoc for, some larger than any slot
Requests == Sizes \cup {3, 5}

\* C11: with a non-empty recycle set, allocate(size) takes exactly one index
\* out of the recycle set and returns it, whatever the size asked for; all
\* records (the returned one included), their number and the backing
\* capacity stay as they were.
C11_RecycledAllocate ==
    object.recycle_ # {} =>
    \A size \in Requests :
        LET out == suballoc(object, size, <<>>)
        IN /\ out.err = Ok
           /\ out.ret \in object.recycle_
           /\ out.rb.recycle_ = object.recycle_ \ {out.ret}
           /\ out.rb.subbuffers_ = object.subbuffers_
           /\ out.rb.length_ = object.length_
           /\ out.rb.memory_ = object.memory_

\* two recycled slots of one byte between live records
C11_Witness ==
    /\ Count = 3 /\ object.recycle_ = {0, 1}
    /\ Sub(0).size = 1 /\ Sub(1).size = 1 /\ Sub(2).filled > 0

\* C12: with an empty recycle set, allocate(size) appends one record whose
\* size is size rounded up to the alignment, filled 0, offset the end of the
\* previously last record (0 if none), returns the old count, leaves the
\* existing records alone and grows the backing allocation exactly when the
\* new record's end exceeds the capacity.
C12_AppendAllocate ==
    object.recycle_ = {} =>
    \A size \in Requests :
        LET out == suballoc(object, size, <<>>)
            a == object.offset_alignment_
            new == out.rb.subbuffers_[Count + 1]
            end == IF Count = 0 THEN 0 ELSE Sub(Count - 1).offset + Sub(Count - 1).size
        IN /\ out.err = Ok
           /\ out.ret = Count
           /\ Len(out.rb.subbuffers_) = Count + 1
           /\ SubSeq(out.rb.subbuffers_, 1, Count) = Records
           /\ new.size >= size /\ new.size - size < a /\ new.size % a = 0
           /\ new.filled = 0
           /\ new.offset = end
           /\ out.rb.recycle_ = {}
           /\ (out.rb.length_ > object.length_) = (end + new.size > object.length_)
           /\ out.rb.length_ >= object.length_
           /\ out.rb.length_ >= end + new.size

\* two records appended under alignment 2, the second at the end of the
\* first, after the backing allocation has grown
C12_Witness ==
    /\ object.offset_alignment_ = 2 /\ object.recycle_ = {} /\ Count = 2
    /\ Sub(0).size = 2 /\ Sub(1).offset = 2 /\ Sub(1).size = 2
    /\ object.length_ = 4

\* C13: every record has filled <= size after any sequence of allocate,
\* append, copyInto, remove, pop, clear, delete and recycled re-allocation.
C13_FilledWithinSize ==
    \A h \in 0..(Count - 1) : Sub(h).filled <= Sub(h).size

\* a record filled to its size and grown to three bytes by a further append,
\* next to a record that is full
C13_Witness ==
    /\ Count = 2 /\ object.recycle_ = {}
    /\ Sub(0).size = 3 /\ Sub(0).filled = 3
    /\ Sub(1).size = 1 /\ Sub(1).filled = 1

\* C14: for the buffer's alignment, every record's offset and size are
\* multiples of it in every state, growInPlace included.
C14_Aligned ==
    \A h \in 0..(Count - 1) :
        /\ Sub(h).offset % object.offset_alignment_ = 0
        /\ Sub(h).size % object.offset_alignment_ = 0

\* alignment 2: a first record grown to four bytes by a request that is not a
\* multiple of the alignment
C14_Witness ==
    /\ object.offset_alignment_ = 2 /\ Count = 1
    /\ Sub(0).size = 4 /\ Sub(0).filled = 3

\* data of every length up to five bytes
Appends == UNION {[1..n -> {0}] : n \in 0..5}

\* C15: on a buffer that is not host-visible append fails with
\* NotHostVisible for every live handle and every length, and neither the
\* records nor the backing allocation change.
C15_NotHostVisible ==
    ~ object.host_visible_ =>
    \A h \in Live, data \in Appends :
        LET out == copy(object, h, data, <<>>)
        IN /\ out.err = NotHostVisible
           /\ out.rb.subbuffers_ = object.subbuffers_
           /\ out.rb.recycle_ = object.recycle_
           /\ out.rb.length_ = object.length_
           /\ out.rb.memory_ = object.memory_

\* a device-local buffer with a full subbuffer followed by another one: an
\* append to the first would have to grow it and shift the second
C15_Witness ==
    /\ ~ object.host_visible_ /\ Count = 2 /\ Live = {0, 1}
    /\ Sub(0).size = 1 /\ Sub(0).filled = 1 /\ Sub(1).size = 1

\* C16: pop(h, length) with length <= filled(h) takes exactly length off
\* filled(h) and changes nothing else; with length > filled(h) it fails with
\* Underflow and changes nothing.
C16_Pop ==
    \A h \in Live, length \in 0..4 :
        LET out == pop(object, h, length)
        IN IF length <= Sub(h).filled
           THEN /\ out.err = Ok
                /\ out.rb.subbuffers_[h + 1].filled = Sub(h).filled - length
                /\ out.rb.subbuffers_[h + 1].size = Sub(h).size
                /\ out.rb.subbuffers_[h + 1].offset = Sub(h).offset
                /\ \A k \in 0..(Count - 1) :
                      k # h => out.rb.subbuffers_[k + 1] = Sub(k)
                /\ Len(out.rb.subbuffers_) = Count
                /\ out.rb.recycle_ = object.recycle_
                /\ out.rb.length_ = object.length_
                /\ out.rb.memory_ = object.memory_
           ELSE out.err = Underflow /\ out.rb = object

\* after a pop of one byte from a subbuffer of <<1, 0>>: the byte popped is
\* still in memory, past filled
C16_Witness ==
    /\ Count = 2 /\ Live = {0, 1}
    /\ Sub(0).size = 2 /\ Sub(0).filled = 1 /\ Bytes(object, 0, 2) = <<1, 0>>
    /\ Sub(1).filled = 1

\* C17: remove(h, at, length) with at + length <= filled(h) takes length off
\* filled(h), keeps the first at bytes of h, moves the bytes formerly at
\* [at + length, filled) of h to [at, filled - length) in order, and leaves
\* every record's size and offset and the other subbuffers' bytes alone; with
\* at + length > filled(h) it fails with RangeError and changes nothing.
C17_Remove ==
    \A h \in Live, at \in 0..3, length \in 0..3 :
        LET out == remove(object, h, at, length)
            filled == Sub(h).filled
            start == Sub(h).offset
            after == out.rb.subbuffers_
        IN IF at + length <= filled
           THEN /\ out.err = Ok
                /\ Len(after) = Count
                /\ after[h + 1].filled = filled - length
                /\ Bytes(out.rb, start, at) = Bytes(object, start, at)
                /\ Bytes(out.rb, start + at, filled - at - length)
                     = Bytes(object, start + at + length, filled - at - length)
                /\ \A k \in 0..(Count - 1) :
                      /\ after[k + 1].size = Sub(k).size
                      /\ after[k + 1].offset = Sub(k).offset
                      /\ k # h => /\ after[k + 1].filled = Sub(k).filled
                                  /\ Bytes(out.rb, Sub(k).offset, Sub(k).size)
                                       = Bytes(object, Sub(k).offset, Sub(k).size)
                /\ out.rb.recycle_ = object.recycle_
                /\ out.rb.length_ = object.length_
           ELSE out.err = RangeError /\ out.rb = object

\* a subbuffer holding <<1, 0, 1>> followed by one holding <<1>>
C17_Witness ==
    /\ Count = 2 /\ Live = {0, 1}
    /\ Sub(0).filled = 3 /\ Bytes(object, 0, 3) = <<1, 0, 1>>
    /\ Sub(1).filled = 1 /\ Bytes(object, Sub(1).offset, 1) = <<1>>

\* C18: delete(h) on a live handle sets filled(h) to 0 and adds h to the
\* recycle set; the number of records, every record's size and offset (h's
\* too), every other record's filled and the backing capacity are unchanged.
C18_Delete ==
    \A h \in Live :
        LET out == delete_subbuffer(object, h)
            after == out.rb.subbuffers_
        IN /\ out.err = Ok
           /\ after[h + 1].filled = 0
           /\ out.rb.recycle_ = object.recycle_ \cup {h}
           /\ Len(after) = Count
           /\ \A k \in 0..(Count - 1) :
                 /\ after[k + 1].size = Sub(k).size
                 /\ after[k + 1].offset = Sub(k).offset
                 /\ k # h => after[k + 1].filled = Sub(k).filled
           /\ out.rb.length_ = object.length_
           /\ out.rb.memory_ = object.memory_

\* a deleted record between two live ones keeps its size and its place
C18_Witness ==
    /\ Count = 3 /\ object.recycle_ = {1}
    /\ Sub(1).size = 1 /\ Sub(1).filled = 0 /\ Sub(2).offset = Sub(1).offset + 1
    /\ Sub(0).filled > 0 /\ Sub(2).filled > 0

\* what the records claim: the records and the recycle set
Meta(rb) == [subbuffers_ |-> rb.subbuffers_, recycle_ |-> rb.recycle_]

Unchanged(out) == out.err # Ok => Meta(out.rb) = Meta(object)

\* C19 as stated: whenever allocate, append, copyInto, growInPlace, remove or
\* pop ends in an error, every record's size, offset and filled, the number
\* of records and the recycle set are what they were before the call.
C19_ErrorChangesNothing ==
    /\ \A size \in Requests : Unchanged(suballoc(object, size, <<>>))
    /\ \A h \in Handles("object") :
          /\ \A data \in Appends : Unchanged(copy(object, h, data, <<>>))
          /\ \A l \in Lengths, src \in Handles("staging") :
                Unchanged(copy_buffer(buffers["staging"], object, l, src, h, <<>>))
          /\ \A size \in Requests : Unchanged(resuballoc(object, h, size, <<>>))
          /\ \A o \in Lengths, l \in Lengths : Unchanged(remove(object, h, o, l))
          /\ \A l \in Lengths : Unchanged(pop(object, h, l))

\* C20: a handle stays valid through every operation until delete is called
\* on that handle itself, and the number of records never decreases.
C20_HandleStaysValid ==
    [][/\ Count' >= Count
       /\ \A h \in Live :
             \/ Delete_subbuffer("object", h)
             \/ h \in Live' /\ check_subbuffer(object', h)]_vars

\* the first handle is still live after a later one was deleted, the records
\* behind it were shifted and the backing allocation has grown
C20_Witness ==
    /\ Count = 3 /\ object.recycle_ = {1} /\ Live = {0, 2}
    /\ Sub(0).size = 2 /\ Sub(2).offset = 3 /\ object.length_ = 4

\* the end of the last slot of a pool
PoolEnd(pool) ==
    IF pool.subbuffers_ = <<>> THEN 0
    ELSE pool.subbuffers_[Len(pool.subbuffers_)].offset
           + pool.subbuffers_[Len(pool.subbuffers_)].size

\* the smallest multiple of the alignment that is at least size
Rounded(size, alignment) == CHOOSE r \in size..(size + alignment) : r % alignment = 0

\* a pool that can take the image: a recycled slot that is large enough, or
\* room to append a slot of the rounded size
Suits(pool, size) ==
    \/ \E index \in pool.recycle_ : pool.subbuffers_[index + 1].size >= size
    \/ PoolEnd(pool) + Rounded(size, pool.alignment_) <= pool.capacity_

\* C21 as stated: the image goes to the first pool of its class, in creation
\* order, that has a recycled slot that is large enough or room to append; a
\* pool is created only when no pool of the class has either, and then the
\* image is bound to the new pool's first slot at offset 0.
C21_FirstPoolThatSuits ==
    [][\A memory_meta \in MemoryMetas, size \in ImageSizes, stale \in StaleReads :
          Allocate_memory(memory_meta, size, stale) =>
          LET pools == allocator[memory_meta]
              after == allocator'[memory_meta]
              suited == {n \in 1..Len(pools) : Suits(pools[n], size)}
          IN IF suited # {}
             THEN /\ Len(after) = Len(pools)
                  /\ Added.handle.pool = Begin(suited) - 1
                  /\ \A n \in 1..Len(pools) : n # Begin(suited) => after[n] = pools[n]
             ELSE /\ Len(after) = Len(pools) + 1
                  /\ SubSeq(after, 1, Len(pools)) = pools
                  /\ Added.handle.pool = Len(pools)
                  /\ Added.handle.index = 0
                  /\ Added.bound = 0
                  /\ Len(after[Len(after)].subbuffers_) = 1]_vars

\* sizes asked of growInPlace
Grown == 1..5

\* C22: growInPlace(h, new_size) with round_up(new_size) > size(h) sets
\* size(h) to round_up(new_size), leaves h's offset and the records before h
\* alone, adds the difference to the offset of every record after h (size and
\* filled unchanged), and the bytes of every other record at its new range,
\* and the first old-size bytes of h, are what they were - also when the
\* backing allocation grows first.
C22_GrowInPlace ==
    \A h \in Live, new_size \in Grown :
        LET sz == Rounded(new_size, object.offset_alignment_)
            shift == sz - Sub(h).size
            probe == resuballoc(object, h, new_size, <<>>).rb
        IN sz > Sub(h).size =>
           \A fresh \in FreshChoices(object.length_ + 1, probe.length_, noise) :
              LET out == resuballoc(object, h, new_size, fresh)
                  now == out.rb.subbuffers_
              IN /\ out.err = Ok
                 /\ Len(now) = Count
                 /\ out.rb.recycle_ = object.recycle_
                 /\ now[h + 1] = [Sub(h) EXCEPT !.size = sz]
                 /\ \A k \in 0..(h - 1) : now[k + 1] = Sub(k)
                 /\ \A k \in (h + 1)..(Count - 1) :
                       now[k + 1] = [Sub(k) EXCEPT !.offset = @ + shift]
                 /\ \A k \in 0..(Count - 1) :
                       LET n == IF k = h THEN Sub(h).size ELSE Sub(k).size
                       IN Bytes(out.rb, now[k + 1].offset, n)
                            = Bytes(object, Sub(k).offset, n)

\* three live one-byte subbuffers fill the backing allocation, the two
\* followers hold different bytes, and growing the first to two bytes moves
\* them up by one inside a larger allocation
C22_Witness ==
    /\ Count = 3 /\ Live = {0, 1, 2} /\ object.length_ = 3
    /\ \A k \in Live : Sub(k).size = 1 /\ Sub(k).filled = 1
    /\ Bytes(object, 1, 2) = <<1, 0>>
    /\ LET out == resuballoc(object, 0, 2, <<>>)
       IN /\ out.rb.length_ = 4
          /\ out.rb.subbuffers_[3].offset = 3
          /\ Bytes(out.rb, 2, 2) = <<1, 0>>

\* capacities asked of growAllocation, all above the current one
MinSizes == {object.length_ + 1, object.length_ + 3, object.length_ + 17}

\* C23: growAllocation(min_size) with min_size above the capacity sets the
\* capacity to min_size rounded up to the alignment, keeps the records and
\* the recycle set, and preserves the bytes [0, old capacity).
C23_GrowAllocation ==
    \A min_size \in MinSizes :
        LET newlen == Rounded(min_size, object.offset_alignment_)
        IN \A fresh \in FreshChoices(object.length_ + 1, newlen, noise) :
              LET out == resize(object, min_size, fresh)
              IN /\ out.length_ = newlen
                 /\ Len(out.memory_) = newlen
                 /\ Meta(out) = Meta(object)
                 /\ out.offset_alignment_ = object.offset_alignment_
                 /\ out.host_visible_ = object.host_visible_
                 /\ Bytes(out, 0, object.length_) = Bytes(object, 0, object.length_)

\* a full buffer of 48 bytes with alignment 16 holding three different
\* blocks: growing it to 49 bytes gives 64 bytes that start with the old 48,
\* whatever the device left in the new allocation
C23_Witness ==
    /\ ThreeOf16 /\ object.length_ = 48 /\ object.offset_alignment_ = 16
    /\ Bytes(object, 0, 16) = [i \in 1..16 |-> i % 2]
    /\ Bytes(object, 16, 16) = [i \in 1..16 |-> 1]
    /\ Bytes(object, 32, 16) = [i \in 1..16 |-> 0]
    /\ LET out == resize(object, 49, [i \in 1..64 |-> 1])
       IN out.length_ = 64 /\ Bytes(out, 0, 48) = Bytes(object, 0, 48)

staging == buffers["staging"]

\* C24: a successful copyInto(target, dst, length, src) adds length to
\* filled(dst), grows dst first when the old filled + length exceeds its
\* size, writes the source bytes at offset(dst) + old filled, keeps the bytes
\* dst already held and the contents of the other subbuffers of the target,
\* and leaves the source buffer as it was.
C24_CopyInto ==
    /\ Meta(staging) = Meta(Staged(RenderBuffer("staging", 1, 1, TRUE, <<0>>),
                                   << <<1>>, <<0>> >>))
    /\ \A length \in Lengths, src \in Handles("staging"), dst \in Handles("object") :
        LET probe == copy_buffer(staging, object, length, src, dst, <<>>)
        IN probe.err = Ok =>
           \A fresh \in FreshChoices(object.length_ + 1, probe.rb.length_, noise) :
              LET out == copy_buffer(staging, object, length, src, dst, fresh)
                  old == Sub(dst)
                  now == out.rb.subbuffers_[dst + 1]
                  from == staging.subbuffers_[src + 1].offset
              IN /\ out.err = Ok
                 /\ now.filled = old.filled + length
                 /\ now.offset = old.offset
                 /\ now.size = IF old.filled + length > old.size
                               THEN Rounded(old.filled + length,
                                            object.offset_alignment_)
                               ELSE old.size
                 /\ Bytes(out.rb, now.offset + old.filled, length)
                      = Bytes(staging, from, length)
                 /\ Bytes(out.rb, now.offset, old.filled)
                      = Bytes(object, old.offset, old.filled)
                 /\ Len(out.rb.subbuffers_) = Count
                 /\ out.rb.recycle_ = object.recycle_
                 /\ \A k \in 0..(Count - 1) :
                       k # dst =>
                       LET rec == out.rb.subbuffers_[k + 1]
                       IN /\ rec.size = Sub(k).size
                          /\ rec.filled = Sub(k).filled
                          /\ Bytes(out.rb, rec.offset, rec.size)
                               = Bytes(object, Sub(k).offset, rec.size)

\* three full one-byte subbuffers holding 0, 1, 0: copying the staging
\* buffer's first byte into the first one grows it and moves the followers
C24_Witness ==
    /\ Count = 3 /\ Live = {0, 1, 2}
    /\ \A k \in Live : Sub(k).size = 1 /\ Sub(k).filled = 1
    /\ Bytes(object, 0, 3) = <<0, 1, 0>>
    /\ Bytes(staging, 0, 1) = <<1>>
    /\ LET out == copy_buffer(staging, object, 1, 0, 0, <<>>)
       IN /\ out.err = Ok
          /\ out.rb.subbuffers_[1].filled = 2
          /\ Bytes(out.rb, 0, 4) = <<0, 1, 1, 0>>

\* the device copies among the calls made on the transfer queue
Copies(calls) == SelectSeq(calls, LAMBDA c : c.call = "submit")

\* the copies come in pairs, from the buffer to its temporary and back, and
\* none has one buffer as source and destination
ThroughTemporary(calls) ==
    LET copies == Copies(calls)
        self == object.handle_
    IN /\ Len(copies) % 2 = 0
       /\ \A i \in 1..Len(copies) :
             /\ copies[i].src # copies[i].dst
             /\ copies[i] = IF i % 2 = 1 THEN Submit(self, <<"temp">> \o self)
                            ELSE Submit(<<"temp">> \o self, self)

\* C25: growInPlace, remove and growAllocation move data as two device
\* copies, from the buffer to a temporary one and from the temporary one back,
\* and no device copy has one buffer as its source and its destination.
C25_ThroughTemporary ==
    /\ \A h \in Live, size \in Grown :
          LET out == resuballoc(object, h, size, <<>>)
          IN /\ ThroughTemporary(out.rb.transfer_queue_)
             /\ (out.rb.subbuffers_ # Records /\ h + 1 < Count
                   /\ \E k \in (h + 1)..(Count - 1) : Sub(k).size > 0)
                  => Len(Copies(out.rb.transfer_queue_)) >= 2
    /\ \A h \in Live, offset \in Lengths, length \in Lengths :
          LET out == remove(object, h, offset, length)
          IN /\ ThroughTemporary(out.rb.transfer_queue_)
             /\ (out.err = Ok /\ offset + length < Sub(h).filled)
                  => Len(Copies(out.rb.transfer_queue_)) = 2
    /\ \A min_size \in MinSizes :
          Len(Copies(resize(object, min_size, <<>>).transfer_queue_)) = 2
            /\ ThroughTemporary(resize(object, min_size, <<>>).transfer_queue_)

\* three live records fill the buffer; growing the first one first grows
\* the backing allocation (two copies) and then moves the followers (two
\* copies), and a remove at the front of a filled record takes two copies
C25_Witness ==
    /\ Count = 3 /\ Live = {0, 1, 2} /\ object.length_ = 4
    /\ Sub(0).size = 2 /\ Sub(0).filled = 2
    /\ Sub(1).size = 1 /\ Sub(2).size = 1
    /\ Len(Copies(resuballoc(object, 0, 3, <<>>).rb.transfer_queue_)) = 4
    /\ Len(Copies(remove(object, 0, 0, 1).rb.transfer_queue_)) = 2

\* C26: every device copy submitted has completed before the next one is
\* submitted and before the public operation returns; no copy is pending
\* between two calls.
C26_CopiesInProgramOrder ==
    /\ (queue.calls # <<>> /\ Head(queue.calls).call = "submit")
         => queue.pending = <<>>
    /\ (queue.running /\ queue.calls = <<>>) => queue.pending = <<>>
    /\ ~ queue.running => queue.pending = <<>>

\* the running operation is about to submit the second copy of its last
\* pair, from the temporary buffer back, after the first has been executed
C26_Witness ==
    /\ queue.running /\ queue.pending = <<>>
    /\ queue.calls = <<Submit(<<"temp", "object">>, <<"object">>), WaitIdle>>

\* C27: whenever a public operation has returned, the last record ends
\* (offset + size) within the capacity of the backing allocation, after any
\* sequence of allocate, append, copyInto and delete, recycled indices
\* handed out again included.
C27_WithinCapacity ==
    /\ Len(object.memory_) = object.length_
    /\ Count > 0 => Sub(Count - 1).offset + Sub(Count - 1).size <= object.length_

\* three records grew the buffer from one byte to four; the middle one has
\* been deleted and the first one, filled, now takes two bytes
C27_Witness ==
    /\ Count = 3 /\ object.length_ = 4 /\ object.recycle_ = {1}
    /\ Sub(0).size = 2 /\ Sub(0).filled = 2
    /\ Sub(2).offset + Sub(2).size = 4

Bound == {c \in BagToSet(images) \X (1..BagCardinality(images)) :
             c[2] <= CopiesIn(c[1], images)}

\* C29 as stated: after any sequence of allocateMemory and removeImage, each
\* handle removed at most once, every bound image has a slot of its pool that
\* is at least as large as the image requires, starts at a multiple of the
\* class alignment and ends within the capacity, and the slots of two bound
\* images of one pool are disjoint.
C29_BoundSlotsDisjoint ==
    /\ \A image \in BagToSet(images) :
          LET pools == allocator[image.handle.memory_meta]
              pool == pools[image.handle.pool + 1]
              slot == pool.subbuffers_[image.handle.index + 1]
          IN /\ image.handle.pool + 1 \in 1..Len(pools)
             /\ image.handle.index + 1 \in 1..Len(pool.subbuffers_)
             /\ image.handle.index \notin pool.recycle_
             /\ image.bound = slot.offset
             /\ image.size <= slot.size
             /\ slot.offset + slot.size <= pool.capacity_
             /\ slot.offset % pool.alignment_ = 0
    /\ \A a \in Bound, b \in Bound :
          (/\ a # b
           /\ a[1].handle.memory_meta = b[1].handle.memory_meta
           /\ a[1].handle.pool = b[1].handle.pool) =>
          \/ a[1].bound + a[1].size <= b[1].bound
          \/ b[1].bound + b[1].size <= a[1].bound

\* C30 as stated: copyInto reads only bytes of the source subbuffer's
\* reserved range; a length above the size of the source subbuffer is
\* rejected instead of copying bytes of the subbuffers that follow it.
C30_ReadsWithinSource ==
    \A length \in Lengths, src \in Handles("staging"), dst \in Live :
        check_subbuffer(staging, src) =>
        LET out == copy_buffer(staging, object, length, src, dst, <<>>)
        IN length > staging.subbuffers_[src + 1].size => out.err # Ok

====
